---------------------------- MODULE Spec2Model ----------------------------
(***************************************************************************)
(* CloudStorageBackend (package ledgerbackend): a read-only ledger backend *)
(* over an object store.  The model covers                                 *)
(*   - GetObjectKeyFromSequenceNumber  (partition/file naming),            *)
(*   - getLatestDirectory, getLatestFileNameLedgerSequence and             *)
(*     GetLatestLedgerSequence          (two-stage "find latest" scan),    *)
(*   - GetLedger, PrepareRange, IsPrepared, Close.                         *)
(*                                                                         *)
(* Strings are sequences of one-character strings, so that formatting,     *)
(* splitting, trimming and parsing are computed the way the Go code        *)
(* computes them.  uint32 arithmetic wraps modulo 2^WordBits; WordBits is  *)
(* the scaled word width of the model (32 in the program).                 *)
(***************************************************************************)
EXTENDS Integers, Sequences, FiniteSets, TLC

VARIABLES
    call,       \* the operation last invoked, with its arguments
    ret,        \* what that operation produced: [kind, val, err]
    stored,     \* ledger sequences the exporter has written to the store
    foreign,    \* objects of the store that the exporter did not write
    fault,      \* how the object of one stored ledger is damaged, if at all
    streams,    \* byte streams the last operation acquired: [kind, key, closed]
    unreleased, \* streams acquired so far that were not released exactly once
    storeLog    \* store requests of the last operation: [request, arg, reply]

vars == <<call, ret, stored, foreign, fault, streams, unreleased, storeLog>>

---------------------------------------------------------------------------
(* Bounds of the model *)

WordBits == 17          \* scaled width of uint32 (the program's is 32)
MaxDirs == 3            \* longest directory listing enumerated
MaxFiles == 3           \* longest file listing enumerated
MaxStreams == 4         \* no further fetch once this many streams are left unreleased

(* Program constants *)

ledgersPerFile == 1
filesPerPartition == 64000

Modulus == 2 ^ WordBits
MaxUint32 == Modulus - 1

\* uint32(x): wrap-around of unsigned arithmetic
U32(x) == x % Modulus

---------------------------------------------------------------------------
(* Strings *)

DigitChars == <<"0", "1", "2", "3", "4", "5", "6", "7", "8", "9">>

IsDigit(c) == \E i \in 1..10 : DigitChars[i] = c

DigitVal(c) == (CHOOSE i \in 1..10 : DigitChars[i] = c) - 1

fileSuffix == <<".", "x", "d", "r", ".", "g", "z">>

Slash == <<"/">>
Dash == <<"-">>

\* fmt.Sprintf("%d", n) for an unsigned n
RECURSIVE Sprintf(_)
Sprintf(n) ==
    IF n < 10 THEN <<DigitChars[n + 1]>>
    ELSE Sprintf(n \div 10) \o <<DigitChars[(n % 10) + 1]>>

HasPrefix(s, prefix) ==
    /\ Len(prefix) <= Len(s)
    /\ SubSeq(s, 1, Len(prefix)) = prefix

HasSuffix(s, suffix) ==
    /\ Len(suffix) <= Len(s)
    /\ SubSeq(s, Len(s) - Len(suffix) + 1, Len(s)) = suffix

\* strings.TrimPrefix
TrimPrefix(s, prefix) ==
    IF HasPrefix(s, prefix) THEN SubSeq(s, Len(prefix) + 1, Len(s)) ELSE s

\* strings.TrimSuffix
TrimSuffix(s, suffix) ==
    IF HasSuffix(s, suffix) THEN SubSeq(s, 1, Len(s) - Len(suffix)) ELSE s

\* strings.Split(s, sep) for a one-character separator
RECURSIVE Split(_, _)
Split(s, sep) ==
    IF \A i \in 1..Len(s) : s[i] # sep THEN <<s>>
    ELSE LET i == CHOOSE k \in 1..Len(s) :
                      /\ s[k] = sep
                      /\ \A j \in 1..(k - 1) : s[j] # sep
         IN  <<SubSeq(s, 1, i - 1)>> \o Split(SubSeq(s, i + 1, Len(s)), sep)

\* value of a string of decimal digits
RECURSIVE DigitsValue(_)
DigitsValue(s) ==
    IF s = <<>> THEN 0
    ELSE DigitsValue(SubSeq(s, 1, Len(s) - 1)) * 10 + DigitVal(s[Len(s)])

AllDigits(s) == \A i \in 1..Len(s) : IsDigit(s[i])

\* strconv.Atoi: an optional sign, then one or more decimal digits
Atoi(s) ==
    LET signed == s # <<>> /\ s[1] \in {"+", "-"}
        digits == IF signed THEN Tail(s) ELSE s
    IN  IF digits = <<>> \/ ~AllDigits(digits)
        THEN [ok |-> FALSE, val |-> 0]
        ELSE [ok |-> TRUE,
              val |-> IF signed /\ s[1] = "-" THEN 0 - DigitsValue(digits)
                      ELSE DigitsValue(digits)]

\* strconv.ParseUint(s, 10, 32): decimal digits only, value within uint32
ParseUint(s) ==
    IF s = <<>> \/ ~AllDigits(s) THEN [ok |-> FALSE, val |-> 0]
    ELSE IF DigitsValue(s) > MaxUint32 THEN [ok |-> FALSE, val |-> MaxUint32]
    ELSE [ok |-> TRUE, val |-> DigitsValue(s)]

---------------------------------------------------------------------------
(* Results: a Go (value, error) pair, or a run-time panic *)

\* a returned value: a string or a number (the other field is its zero)
Text(s) == [text |-> s, num |-> 0]
Num(n) == [text |-> <<>>, num |-> n]

\* the element of a one-element set: TheOne({F(x) : x \in {e}}) is F(e)
TheOne(S) == CHOOSE v \in S : TRUE

Ok(v) == [kind |-> "ok", val |-> v, err |-> "nil"]
Err(zero, e) == [kind |-> "err", val |-> zero, err |-> e]
Panic(zero, e) == [kind |-> "panic", val |-> zero, err |-> e]

NoCall == [op |-> "none"]
NoRet == [kind |-> "none", val |-> Num(0), err |-> "nil"]

\* the call drawn has not been made yet
Pending == ret.kind = "none"

---------------------------------------------------------------------------
(* PartitionKeyMapper *)

GetObjectKeyFromSequenceNumber(ledgerSeq, perFile, perPartition) ==
    IF perFile < 1 THEN Err(Text(<<>>), "Invalid ledgers per file")
    ELSE
    LET partitionSize == U32(perFile * perPartition)
    IN  IF perPartition > 1 /\ partitionSize = 0
        THEN Panic(Text(<<>>), "integer divide by zero")
        ELSE
        LET partitionStart == U32((ledgerSeq \div partitionSize) * partitionSize)
            partitionEnd == U32(partitionStart + partitionSize - 1)
            partitionDir == IF perPartition > 1
                            THEN Sprintf(partitionStart) \o Dash
                                   \o Sprintf(partitionEnd) \o Slash
                            ELSE <<>>
            fileStart == U32((ledgerSeq \div perFile) * perFile)
            fileEnd == U32(fileStart + perFile - 1)
            fileName == IF fileStart # fileEnd
                        THEN Sprintf(fileStart) \o Dash \o Sprintf(fileEnd)
                        ELSE Sprintf(fileStart)
        IN  Ok(Text(partitionDir \o fileName \o fileSuffix))

\* inputs of the key mapper
KeySequences == {0, 5, 63999, 64000, 64005, MaxUint32 - 1, MaxUint32}
KeyLedgersPerFile == {0, 1, 2, 3, 64}
KeyFilesPerPartition == {0, 1, 2, 64000, Modulus \div 2}

NoFault == [seq |-> 0, kind |-> "none"]

\* a store that holds nothing, and no stream acquired
EmptyStore ==
    /\ stored = {}
    /\ foreign = {}
    /\ fault = NoFault
    /\ streams = <<>>
    /\ unreleased = 0
    /\ storeLog = <<>>

KeyCalls ==
    {[op |-> "GetObjectKeyFromSequenceNumber", ledgerSeq |-> s,
      ledgersPerFile |-> f, filesPerPartition |-> p] :
        s \in KeySequences, f \in KeyLedgersPerFile, p \in KeyFilesPerPartition}

InitKey ==
    /\ call \in KeyCalls
    /\ ret = NoRet
    /\ EmptyStore

GetObjectKey ==
    /\ call.op = "GetObjectKeyFromSequenceNumber"
    /\ Pending
    /\ ret' = GetObjectKeyFromSequenceNumber(call.ledgerSeq, call.ledgersPerFile,
                                             call.filesPerPartition)
    /\ UNCHANGED <<call, stored, foreign, fault, streams, unreleased, storeLog>>

NextKey == GetObjectKey

SpecKey == InitKey /\ [][NextKey]_vars

---------------------------------------------------------------------------
(* LatestLedgerLocator, stage 1: getLatestDirectory *)

\* a scan that takes the second part of any name with two parts or more
HasAtLeastTwoParts(parts) == Len(parts) >= 2

\* len(parts) == 2
HasTwoParts(parts) == Len(parts) = 2

\* a scan that lets a later directory with an equal <end> replace the earlier one
IsLargerOrEqualDirectory(upper, largestDirectoryLedger) ==
    upper >= largestDirectoryLedger

\* upper > largestDirectoryLedger
IsLargerDirectory(upper, largestDirectoryLedger) == upper > largestDirectoryLedger

\* the loop of getLatestDirectory from position i on, with the loop's locals
RECURSIVE DirectoryLoop(_, _, _, _)
DirectoryLoop(directories, i, latestDirectory, largestDirectoryLedger) ==
    IF i > Len(directories) THEN Ok(Text(latestDirectory))
    ELSE
    LET dir == directories[i]
        dirParts == Split(dir, "/")
        lastDirPart == dirParts[Len(dirParts)]
        parts == Split(lastDirPart, "-")
    IN  IF HasTwoParts(parts)
        THEN LET upper == Atoi(parts[2])
             IN  IF ~upper.ok THEN Err(Text(<<>>), "failed getting latest directory")
                 ELSE IF IsLargerDirectory(upper.val, largestDirectoryLedger)
                 THEN DirectoryLoop(directories, i + 1, dir, upper.val)
                 ELSE DirectoryLoop(directories, i + 1, latestDirectory,
                                    largestDirectoryLedger)
        ELSE DirectoryLoop(directories, i + 1, latestDirectory, largestDirectoryLedger)

getLatestDirectory(directories) == DirectoryLoop(directories, 1, <<>>, 0)

(* LatestLedgerLocator, stage 2: getLatestFileNameLedgerSequence *)

\* a scan that keeps the sequence of the last file name instead of the largest
IsAnySequence(ledgerSequence, latestLedgerSequence) == TRUE

\* uint32(ledgerSequence) > latestLedgerSequence
IsLaterSequence(ledgerSequence, latestLedgerSequence) ==
    ledgerSequence > latestLedgerSequence

RECURSIVE FileNameLoop(_, _, _, _)
FileNameLoop(fileNames, directory, i, latestLedgerSequence) ==
    IF i > Len(fileNames) THEN Ok(Num(latestLedgerSequence))
    ELSE
    LET fileName == fileNames[i]
        fileNameTrimExt == TrimSuffix(fileName, fileSuffix)
        fileNameTrimPath == TrimPrefix(fileNameTrimExt, directory \o Slash)
        ledgerSequence == ParseUint(fileNameTrimPath)
    IN  IF ~ledgerSequence.ok THEN Err(Num(0), "failed converting filename to uint32")
        ELSE IF IsLaterSequence(ledgerSequence.val, latestLedgerSequence)
        THEN FileNameLoop(fileNames, directory, i + 1, ledgerSequence.val)
        ELSE FileNameLoop(fileNames, directory, i + 1, latestLedgerSequence)

getLatestFileNameLedgerSequence(fileNames, directory) ==
    FileNameLoop(fileNames, directory, 1, 0)

---------------------------------------------------------------------------
(* Listings the two stages are applied to *)

LedgersNet == <<"l", "e", "d", "g", "e", "r", "s", "/", "n", "e", "t", "/">>

PartitionName(base, start, end) == base \o Sprintf(start) \o Dash \o Sprintf(end)

DirFirst == PartitionName(LedgersNet, 0, 63999)
DirSecond == PartitionName(LedgersNet, 64000, 127999)
DirSecondTwin == PartitionName(<<"n", "/">>, 1, 127999)
DirZero == PartitionName(<<>>, 0, 0)
DirBad == <<"b", "a", "d", "-", "d", "i", "r">>
DirNoDash == <<"t", "m", "p">>
DirThreeParts == <<"1", "-", "2", "-", "3">>
DirAlphaStart == <<"x", "-">> \o Sprintf(200000)

DirSignedEnd == <<"7", "-", "+", "9">>
DirTrailingSlash == DirSecond \o Slash

DirectoryNames ==
    {DirFirst, DirSecond, DirSecondTwin, DirZero, DirBad, DirNoDash,
     DirThreeParts, DirAlphaStart, DirSignedEnd, DirTrailingSlash}

SeqsUpTo(S, n) == UNION {[1..k -> S] : k \in 0..n}

DirectoryListings == SeqsUpTo(DirectoryNames, MaxDirs)

FileBodies ==
    {Sprintf(64005), Sprintf(64000), <<"0", "0", "7">>, <<"R", "E", "A", "D">>,
     <<"5", "-", "6">>, Sprintf(999999), <<>>, <<"+", "5">>}

FileNames ==
    {DirSecond \o Slash \o body \o fileSuffix : body \in FileBodies}
      \cup {Sprintf(64001) \o fileSuffix, DirSecond \o Slash \o Sprintf(64002)}

FileListings == SeqsUpTo(FileNames, MaxFiles)

FileDirectories == {DirSecond, <<>>}

LatestCalls ==
    {[op |-> "getLatestDirectory", directories |-> d] : d \in DirectoryListings}
      \cup {[op |-> "getLatestFileNameLedgerSequence", fileNames |-> f,
             directory |-> d] : f \in FileListings, d \in FileDirectories}

InitLatest ==
    /\ call \in LatestCalls
    /\ ret = NoRet
    /\ EmptyStore

GetLatestDirectoryCall ==
    /\ call.op = "getLatestDirectory"
    /\ Pending
    /\ ret' = getLatestDirectory(call.directories)
    /\ UNCHANGED <<call, stored, foreign, fault, streams, unreleased, storeLog>>

GetLatestFileNameCall ==
    /\ call.op = "getLatestFileNameLedgerSequence"
    /\ Pending
    /\ ret' = getLatestFileNameLedgerSequence(call.fileNames, call.directory)
    /\ UNCHANGED <<call, stored, foreign, fault, streams, unreleased, storeLog>>

NextLatest == GetLatestDirectoryCall \/ GetLatestFileNameCall

SpecLatest == InitLatest /\ [][NextLatest]_vars

---------------------------------------------------------------------------
(* The object store behind lcmDataStore *)

StoredCandidates == {5, 64005, MaxUint32}
FaultCandidates == {5}
FaultKinds ==
    {"badframe", "badread", "baddecode", "empty", "later", "earlier", "wide"}

\* the key the exporter files a ledger under
ExportedKey(seq) ==
    GetObjectKeyFromSequenceNumber(seq, ledgersPerFile, filesPerPartition).val.text

\* a LedgerCloseMeta, known by the ledger it closes
Meta(seq) == Num(seq)
ZeroMeta == Num(-1)

Batch(startSequence, count) ==
    [kind |-> "batch", startSequence |-> startSequence,
     ledgerCloseMetas |-> [i \in 1..count |-> Meta(U32(startSequence + i - 1))]]

\* the object filed for a stored ledger
ObjectOf(seq) ==
    IF fault.kind = "none" \/ fault.seq # seq THEN Batch(seq, 1)
    ELSE IF fault.kind = "empty" THEN Batch(seq, 0)
    ELSE IF fault.kind = "later" THEN Batch(U32(seq + 1), 1)
    ELSE IF fault.kind = "earlier" THEN Batch(U32(seq - 1), 1)
    ELSE IF fault.kind = "wide" THEN Batch(U32(seq - 1), 2)
    ELSE [kind |-> fault.kind]

\* lcmDataStore.GetFile
GetFile(objectKey) ==
    IF \E seq \in stored : ExportedKey(seq) = objectKey
    THEN ObjectOf(CHOOSE seq \in stored : ExportedKey(seq) = objectKey)
    ELSE [kind |-> "absent"]

ForeignTmp == LedgersNet \o <<"t", "m", "p", "/", "x">>
ForeignBadDir == DirBad \o <<"/", "x">>
ForeignReadme == DirSecond \o <<"/", "R", "E", "A", "D">>
ForeignChoices == {{}, {ForeignTmp}, {ForeignBadDir}, {ForeignReadme}}

ObjectNames == {LedgersNet \o ExportedKey(seq) : seq \in stored} \cup foreign

\* the directory an object name lies in
DirectoryOf(name) ==
    LET slashes == {i \in 1..Len(name) : name[i] = "/"}
    IN  IF slashes = {} THEN <<>>
        ELSE SubSeq(name, 1, (CHOOSE i \in slashes : \A j \in slashes : j <= i) - 1)

Orderings(S) ==
    {f \in [1..Cardinality(S) -> S] :
        \A i, j \in 1..Cardinality(S) : f[i] = f[j] => i = j}

\* lcmDataStore.ListDirectoryNames, in any order
ListDirectoryNames == Orderings({DirectoryOf(name) : name \in ObjectNames})

\* lcmDataStore.ListFileNames, in any order
ListFileNames(directory) ==
    Orderings({name \in ObjectNames : DirectoryOf(name) = directory})

---------------------------------------------------------------------------
(* LedgerBatchFetcher: GetLedger *)

\* a request made to the store, with its answer
Listed(request, arg, reply) == [request |-> request, arg |-> arg, reply |-> reply]

Reader(objectKey) == [kind |-> "reader", key |-> objectKey, closed |-> 0]
GzipReader(objectKey) == [kind |-> "gzipReader", key |-> objectKey, closed |-> 0]

\* a return that runs the deferred Close calls on the success path only
ExitClosingOnSuccess(result, acquired, deferred) ==
    [ret |-> result,
     streams |-> [i \in 1..Len(acquired) |->
                     IF i \in deferred /\ result.kind = "ok"
                     THEN [acquired[i] EXCEPT !.closed = @ + 1]
                     ELSE acquired[i]]]

\* leaving GetLedger: the deferred Close calls run, on a return and on a panic
Exit(result, acquired, deferred) ==
    [ret |-> result,
     streams |-> [i \in 1..Len(acquired) |->
                     IF i \in deferred
                     THEN [acquired[i] EXCEPT !.closed = @ + 1]
                     ELSE acquired[i]]]

\* GetLedger from the fetch on: what it does with the object the store hands out
FetchAndDecode(sequence, objectKey, file) ==
    LET reader == Reader(objectKey)
        gzipReader == GzipReader(objectKey)
    IN  IF file.kind = "absent"
        THEN Exit(Err(ZeroMeta, "failed getting file"), <<>>, {})
        ELSE IF file.kind = "badframe"
        THEN Exit(Err(ZeroMeta, "failed getting file"), <<reader>>, {1})
        ELSE IF file.kind = "badread"
        THEN Exit(Err(ZeroMeta, "failed reading file"), <<reader, gzipReader>>, {1, 2})
        ELSE IF file.kind = "baddecode"
        THEN Exit(Err(ZeroMeta, "failed unmarshalling file"),
                  <<reader, gzipReader>>, {1, 2})
        ELSE
        LET ledgerCloseMetasIndex == U32(sequence - file.startSequence)
        IN  IF ledgerCloseMetasIndex >= Len(file.ledgerCloseMetas)
            THEN Exit(Panic(ZeroMeta, "index out of range"),
                      <<reader, gzipReader>>, {1, 2})
            ELSE Exit(Ok(file.ledgerCloseMetas[ledgerCloseMetasIndex + 1]),
                      <<reader, gzipReader>>, {1, 2})

\* GetLedger: [ret, streams, log]; log holds the GetFile request it made
GetLedgerRun(sequence) ==
    TheOne({
        IF objectKey.kind = "err"
        THEN [ret |-> Err(ZeroMeta, "failed to get object key for ledger"),
              streams |-> <<>>, log |-> <<>>]
        ELSE IF objectKey.kind = "panic"
        THEN [ret |-> Panic(ZeroMeta, objectKey.err), streams |-> <<>>, log |-> <<>>]
        ELSE TheOne({
                [ret |-> FetchAndDecode(sequence, objectKey.val.text, file).ret,
                 streams |-> FetchAndDecode(sequence, objectKey.val.text, file).streams,
                 log |-> <<Listed("GetFile", objectKey.val.text, file)>>] :
                    file \in {GetFile(objectKey.val.text)}})
        : objectKey \in {GetObjectKeyFromSequenceNumber(sequence, ledgersPerFile,
                                                        filesPerPartition)}})

NotReleasedOnce(acquired) ==
    Cardinality({i \in 1..Len(acquired) : acquired[i].closed # 1})

GetLedger(sequence) ==
    /\ unreleased < MaxStreams
    /\ \E run \in {GetLedgerRun(sequence)} :
           /\ call' = [op |-> "GetLedger", sequence |-> sequence]
           /\ ret' = run.ret
           /\ streams' = run.streams
           /\ unreleased' = unreleased + NotReleasedOnce(run.streams)
           /\ storeLog' = run.log
    /\ UNCHANGED <<stored, foreign, fault>>

---------------------------------------------------------------------------
(* RangeValidator: PrepareRange, IsPrepared, Close *)

\* a validator that probes the end of the range whether it is bounded or not
ChecksEndAlways(bounded) == TRUE

\* if ledgerRange.bounded
ChecksEnd(bounded) == bounded

\* PrepareRange once GetLedger(ledgerRange.from) has returned
PrepareRangeAfterFrom(first, to, bounded) ==
    IF first.ret.kind = "panic"
    THEN [ret |-> Panic(Num(0), first.ret.err), streams |-> first.streams,
          log |-> first.log]
    ELSE IF first.ret.kind = "err"
    THEN [ret |-> Err(Num(0), "error getting ledger"), streams |-> first.streams,
          log |-> first.log]
    ELSE IF ChecksEnd(bounded)
    THEN TheOne({
            [ret |-> IF second.ret.kind = "panic" THEN Panic(Num(0), second.ret.err)
                     ELSE IF second.ret.kind = "err"
                     THEN Err(Num(0), "error getting ending ledger")
                     ELSE Ok(Num(0)),
             streams |-> first.streams \o second.streams,
             log |-> first.log \o second.log] :
                second \in {GetLedgerRun(to)}})
    ELSE [ret |-> Ok(Num(0)), streams |-> first.streams, log |-> first.log]

PrepareRangeRun(from, to, bounded) ==
    TheOne({PrepareRangeAfterFrom(first, to, bounded) : first \in {GetLedgerRun(from)}})

PrepareRange(from, to, bounded) ==
    /\ unreleased < MaxStreams
    /\ \E run \in {PrepareRangeRun(from, to, bounded)} :
           /\ call' = [op |-> "PrepareRange", from |-> from, to |-> to,
                       bounded |-> bounded]
           /\ ret' = run.ret
           /\ streams' = run.streams
           /\ unreleased' = unreleased + NotReleasedOnce(run.streams)
           /\ storeLog' = run.log
    /\ UNCHANGED <<stored, foreign, fault>>

IsPrepared ==
    /\ call' = [op |-> "IsPrepared"]
    /\ ret' = Ok(Num(1))
    /\ streams' = <<>>
    /\ storeLog' = <<>>
    /\ UNCHANGED <<stored, foreign, fault, unreleased>>

Close ==
    /\ call' = [op |-> "Close"]
    /\ ret' = Ok(Num(0))
    /\ streams' = <<>>
    /\ storeLog' = <<>>
    /\ UNCHANGED <<stored, foreign, fault, unreleased>>

---------------------------------------------------------------------------
(* LatestLedgerLocator: GetLatestLedgerSequence *)

ListingFailed == [kind |-> "err", names |-> <<>>]
Listing(names) == [kind |-> "ok", names |-> names]

\* GetLatestLedgerSequence, given what the store answers to the two listings
\* and latestDirectory = getLatestDirectory(directoryReply.names); fileReply
\* is the answer to ListFileNames(latestDirectory), which is asked for only
\* when stage 1 returns without error
GetLatestLedgerSequenceRun(directoryReply, latestDirectory, fileReply) ==
    LET first == <<Listed("ListDirectoryNames", <<>>, directoryReply)>>
        both == first \o <<Listed("ListFileNames", latestDirectory.val.text, fileReply)>>
    IN  IF directoryReply.kind = "err"
        THEN [ret |-> Err(Num(0), "failed getting list of directory names"),
              log |-> first]
        ELSE IF latestDirectory.kind = "err"
        THEN [ret |-> Err(Num(0), "failed getting latest directory"), log |-> first]
        ELSE IF fileReply.kind = "err"
        THEN [ret |-> Err(Num(0), "failed getting filenames in dir"), log |-> both]
        ELSE TheOne({
                IF latestLedgerSequence.kind = "err"
                THEN [ret |-> Err(Num(0), "failed converting filename to ledger sequence"),
                      log |-> both]
                ELSE [ret |-> Ok(latestLedgerSequence.val), log |-> both] :
                    latestLedgerSequence \in
                        {getLatestFileNameLedgerSequence(fileReply.names,
                                                         latestDirectory.val.text)}})

\* what the store may answer to ListFileNames; it is asked only when the
\* directory listing and stage 1 both succeeded
FileReplies(directoryReply, latestDirectory) ==
    IF directoryReply.kind = "err" \/ latestDirectory.kind = "err"
    THEN {ListingFailed}
    ELSE {Listing(names) : names \in ListFileNames(latestDirectory.val.text)}
           \cup {ListingFailed}

GetLatestLedgerSequence ==
    \E directoryReply \in {Listing(names) : names \in ListDirectoryNames}
                            \cup {ListingFailed} :
      \E latestDirectory \in {getLatestDirectory(directoryReply.names)} :
        \E fileReply \in FileReplies(directoryReply, latestDirectory) :
          \E run \in {GetLatestLedgerSequenceRun(directoryReply, latestDirectory,
                                                 fileReply)} :
            /\ call' = [op |-> "GetLatestLedgerSequence"]
            /\ ret' = run.ret
            /\ streams' = <<>>
            /\ storeLog' = run.log
            /\ UNCHANGED <<stored, foreign, fault, unreleased>>

---------------------------------------------------------------------------
(* The backend over a store *)

LedgerProbes == {5, 7, 64005, MaxUint32}
RangeProbes == {5, 7, 64005}

Init ==
    /\ call = NoCall
    /\ ret = NoRet
    /\ stored \in SUBSET StoredCandidates
    /\ foreign \in ForeignChoices
    /\ fault \in {NoFault} \cup
                 {[seq |-> s, kind |-> k] :
                     s \in stored \cap FaultCandidates, k \in FaultKinds}
    /\ foreign # {} => fault = NoFault
    /\ streams = <<>>
    /\ unreleased = 0
    /\ storeLog = <<>>

Next ==
    \/ \E sequence \in LedgerProbes : GetLedger(sequence)
    \/ \E from \in RangeProbes, to \in RangeProbes, bounded \in BOOLEAN :
           PrepareRange(from, to, bounded)
    \/ GetLatestLedgerSequence
    \/ IsPrepared
    \/ Close

Spec == Init /\ [][Next]_vars

---------------------------------------------------------------------------
(* Properties of the key mapper (SpecKey) *)

KeyCalled == call.op = "GetObjectKeyFromSequenceNumber" /\ ~Pending

\* the pieces a key is made of, read back from its text
KeySegments(key) == Split(key, "/")
KeyFileRange(key) ==
    Split(TrimSuffix(KeySegments(key)[Len(KeySegments(key))], fileSuffix), "-")
KeyFileStart(key) == DigitsValue(KeyFileRange(key)[1])
KeyFileEnd(key) == DigitsValue(KeyFileRange(key)[Len(KeyFileRange(key))])
KeyHasPartition(key) == Len(KeySegments(key)) > 1
KeyPartitionStart(key) == DigitsValue(Split(KeySegments(key)[1], "-")[1])
KeyPartitionEnd(key) == DigitsValue(Split(KeySegments(key)[1], "-")[2])

\* C2: for every sequence, ledgersPerFile >= 1 and filesPerPartition >= 1 the
\* key mapper returns a key, and the file range written in the key contains
\* the sequence: fileStart <= sequence <= fileEnd.
C2_FileRangeContainsSequence ==
    (KeyCalled /\ call.ledgersPerFile >= 1 /\ call.filesPerPartition >= 1)
        => /\ ret.kind = "ok"
           /\ KeyFileStart(ret.val.text) <= call.ledgerSeq
           /\ call.ledgerSeq <= KeyFileEnd(ret.val.text)

KeyExampleFirst ==
    <<"0", "-", "6", "3", "9", "9", "9", "/", "5">> \o fileSuffix
KeyExampleSecond ==
    <<"6", "4", "0", "0", "0", "-", "1", "2", "7", "9", "9", "9", "/",
      "6", "4", "0", "0", "5">> \o fileSuffix

\* C9: for ledgersPerFile >= 1 the returned key starts with a partition
\* directory exactly when filesPerPartition > 1, and that directory encodes
\* partitionStart, a multiple of partitionSize = ledgersPerFile x
\* filesPerPartition, and partitionEnd = partitionStart + partitionSize - 1,
\* with partitionStart <= sequence <= partitionEnd; (5, 1, 64000) and
\* (64005, 1, 64000) give the two keys of the specification.
C9_PartitionPrefixEncodesPartition ==
    (KeyCalled /\ call.ledgersPerFile >= 1 /\ ret.kind = "ok")
        => LET key == ret.val.text
               partitionSize == call.ledgersPerFile * call.filesPerPartition
           IN  /\ KeyHasPartition(key) <=> call.filesPerPartition > 1
               /\ KeyHasPartition(key) =>
                    /\ KeyPartitionStart(key) % partitionSize = 0
                    /\ KeyPartitionEnd(key) = KeyPartitionStart(key) + partitionSize - 1
                    /\ KeyPartitionStart(key) <= call.ledgerSeq
                    /\ call.ledgerSeq <= KeyPartitionEnd(key)
               /\ (call.ledgersPerFile = 1 /\ call.filesPerPartition = 64000) =>
                    /\ call.ledgerSeq = 5 => key = KeyExampleFirst
                    /\ call.ledgerSeq = 64005 => key = KeyExampleSecond

---------------------------------------------------------------------------
(* Properties of the latest-directory scan (SpecLatest) *)

DirectoryCalled == call.op = "getLatestDirectory" /\ ~Pending

TrailingParts(name) ==
    Split(Split(name, "/")[Len(Split(name, "/"))], "-")

\* the trailing segment splits on "-" into exactly two parts
TwoPartName(name) == Len(TrailingParts(name)) = 2

IsNumber(s) == s # <<>> /\ AllDigits(s)

\* "<start>-<end>" with both parts numeric
WellFormedName(name) ==
    /\ TwoPartName(name)
    /\ IsNumber(TrailingParts(name)[1])
    /\ IsNumber(TrailingParts(name)[2])

\* the second part reads as an integer: digits, with an optional sign
IntegerEnd(name) ==
    LET end == TrailingParts(name)[2]
    IN  IsNumber(end) \/ (end # <<>> /\ end[1] \in {"+", "-"} /\ IsNumber(Tail(end)))

EndValue(name) ==
    LET end == TrailingParts(name)[2]
    IN  IF IsNumber(end) THEN DigitsValue(end)
        ELSE IF end[1] = "-" THEN 0 - DigitsValue(Tail(end))
        ELSE DigitsValue(Tail(end))

LargestEndPositions(directories, candidates) ==
    {i \in candidates :
        \A j \in candidates : EndValue(directories[j]) <= EndValue(directories[i])}

Lowest(S) == CHOOSE i \in S : \A j \in S : i <= j

---------------------------------------------------------------------------
(* Properties of the latest-file scan (SpecLatest) *)

FileNameCalled == call.op = "getLatestFileNameLedgerSequence" /\ ~Pending

\* what is left of a file name without the suffix and the "<directory>/" prefix
StrippedName(fileName, directory) ==
    TrimPrefix(TrimSuffix(fileName, fileSuffix), directory \o Slash)

IsUint32Decimal(s) == IsNumber(s) /\ DigitsValue(s) <= MaxUint32

\* C5: if some file name, stripped of suffix and directory prefix, is not an
\* unsigned 32-bit decimal integer, the scan fails and returns no sequence,
\* wherever that name stands in the listing; otherwise the result is the
\* largest of the parsed sequences (0 for the empty listing).
C5_UnparsableFileNameFails ==
    FileNameCalled
        => LET stripped == [i \in 1..Len(call.fileNames) |->
                               StrippedName(call.fileNames[i], call.directory)]
           IN  IF \E i \in 1..Len(stripped) : ~IsUint32Decimal(stripped[i])
               THEN ret.kind = "err" /\ ret.val.num = 0
               ELSE /\ ret.kind = "ok"
                    /\ \A i \in 1..Len(stripped) : DigitsValue(stripped[i]) <= ret.val.num
                    /\ stripped # <<>> =>
                         \E i \in 1..Len(stripped) : DigitsValue(stripped[i]) = ret.val.num
                    /\ stripped = <<>> => ret.val.num = 0

C5_Witness ==
    /\ FileNameCalled
    /\ Len(call.fileNames) >= 2
    /\ ret.kind = "ok"
    /\ ret.val.num > 0
    /\ DigitsValue(StrippedName(call.fileNames[Len(call.fileNames)], call.directory))
          < ret.val.num

---------------------------------------------------------------------------
(* Properties of the backend over a store (Spec) *)

GetLedgerCalled == call.op = "GetLedger"
PrepareRangeCalled == call.op = "PrepareRange"
LatestCalled == call.op = "GetLatestLedgerSequence"

\* the batch GetLedger decoded does not cover the requested sequence
BatchMisses(batch, sequence) ==
    \/ sequence < batch.startSequence
    \/ sequence >= batch.startSequence + Len(batch.ledgerCloseMetas)

\* C1: whenever the decoded batch does not cover the requested sequence,
\* GetLedger returns an error value (a RangeError): not a record, not a crash.
C1_UncoveredSequenceIsRangeError ==
    (/\ GetLedgerCalled
     /\ storeLog # <<>>
     /\ storeLog[1].reply.kind = "batch"
     /\ BatchMisses(storeLog[1].reply, call.sequence))
        => ret.kind = "err"

\* C4: when the directory listing holds no well-formed "<start>-<end>" name,
\* the empty listing included, GetLatestLedgerSequence returns an error and
\* neither lists files nor returns a sequence.
C4_NoWellFormedDirectoryIsAnError ==
    (/\ LatestCalled
     /\ storeLog[1].reply.kind = "ok"
     /\ \A i \in 1..Len(storeLog[1].reply.names) :
            ~WellFormedName(storeLog[1].reply.names[i]))
        => /\ ret.kind = "err"
           /\ Len(storeLog) = 1

\* C7: PrepareRange probes range.from first; unbounded, it never fetches
\* range.to and succeeds exactly when GetLedger(from) succeeds; bounded, it
\* succeeds exactly when GetLedger(from) and GetLedger(to) both succeed, and
\* when GetLedger(from) fails it returns that error without fetching range.to.
C7_PrepareRangeProbesInOrder ==
    PrepareRangeCalled
        => LET first == GetLedgerRun(call.from).ret.kind
               second == GetLedgerRun(call.to).ret.kind
           IN  /\ storeLog # <<>>
               /\ storeLog[1].request = "GetFile"
               /\ storeLog[1].arg = ExportedKey(call.from)
               /\ ~call.bounded =>
                     /\ Len(storeLog) = 1
                     /\ ret.kind = "ok" <=> first = "ok"
               /\ call.bounded =>
                     /\ ret.kind = "ok" <=> (first = "ok" /\ second = "ok")
                     /\ first = "err" =>
                           /\ ret.kind = "err"
                           /\ ret.err = "error getting ledger"
                           /\ Len(storeLog) = 1
                     /\ Len(storeLog) = 2 => storeLog[2].arg = ExportedKey(call.to)

C7_Witness ==
    /\ PrepareRangeCalled
    /\ call.bounded
    /\ call.from # call.to
    /\ Len(storeLog) = 2
    /\ ret.kind = "err"
    /\ ret.err = "error getting ending ledger"

\* how many streams a fetch acquires, by what the store handed out
StreamsAcquired(entry) ==
    IF entry.reply.kind = "absent" THEN 0
    ELSE IF entry.reply.kind = "badframe" THEN 1
    ELSE 2

RECURSIVE TotalAcquired(_)
TotalAcquired(log) ==
    IF log = <<>> THEN 0 ELSE StreamsAcquired(Head(log)) + TotalAcquired(Tail(log))

\* C8: every stream GetLedger acquires, raw or decompressing, has been
\* released exactly once when it returns, on every exit path; after any
\* sequence of GetLedger and PrepareRange calls no stream remains open.
C8_StreamsReleasedOnce ==
    /\ unreleased = 0
    /\ \A i \in 1..Len(streams) : streams[i].closed = 1
    /\ (GetLedgerCalled \/ PrepareRangeCalled) => Len(streams) = TotalAcquired(storeLog)

C8_Witness ==
    /\ GetLedgerCalled
    /\ ret.kind = "err"
    /\ ret.err = "failed unmarshalling file"
    /\ Len(streams) = 2
    /\ streams[1].kind = "reader" /\ streams[1].closed = 1
    /\ streams[2].kind = "gzipReader" /\ streams[2].closed = 1

Largest(S) == CHOOSE x \in S : \A y \in S : y <= x

\* C10: when the store holds a non-empty set of ledgers, each under the key
\* the key mapper derives for it, and the listings reflect those keys,
\* GetLatestLedgerSequence returns the largest stored sequence, and the key
\* of that sequence addresses an object that exists.
C10_LatestIsLargestStored ==
    (/\ LatestCalled
     /\ stored # {}
     /\ foreign = {}
     /\ fault = NoFault
     /\ \A i \in 1..Len(storeLog) : storeLog[i].reply.kind = "ok")
        => /\ ret.kind = "ok"
           /\ ret.val.num = Largest(stored)
           /\ GetFile(ExportedKey(ret.val.num)).kind = "batch"

===========================================================================
